---- MODULE Spec2Model ----
(***************************************************************************)
(* Training-process supervision and live telemetry of the Bailando         *)
(* training server.                                                        *)
(*                                                                         *)
(* The repository holds two server programs that supervise a training      *)
(* child process:                                                          *)
(*   - Server.py (whose run_training_async and monitor_training_logs are   *)
(*     repeated in training_runner.py and log_monitor.py): the start       *)
(*     handler schedules a background task on the event loop; the task     *)
(*     spawns the child, starts the state-file watcher thread and polls    *)
(*     the child's output;                                                 *)
(*   - routes/training_routes.py: the start handler spawns the child and   *)
(*     starts an output-drain thread.                                      *)
(* The variable app says which of the two is running.  Event-loop code is  *)
(* one action per stretch between two awaits; thread code is one action    *)
(* per access to shared state.  Both broadcast through a ConnectionManager *)
(* (websocket_manager.py), whose registry is modelled with the iteration   *)
(* and resize behaviour of the CPython dict it is kept in.                 *)
(***************************************************************************)
EXTENDS Integers, Sequences, FiniteSets, Bags, TLC

\* ------------------------------------------------------------- bounds
MaxStarts == 2
MaxStops == 1
MaxOut == 1
MaxWrites == 2
MaxQuiet == 1
MaxQueue == 2
MaxConnects == 3
MaxReconnects == 7
MaxTasks == 2
MaxBroadcasts == 1
MaxLines == 2
MaxLogCalls == 2

\* -------------------------------------------------- program constants
max_timeout == 300
LOSS_EXPLOSION == 500
SIGTERM_RC == 0 - 15

Requests == 1..MaxStarts
None == 0
ExitCodes == {0, 137}
Losses == {LOSS_EXPLOSION, LOSS_EXPLOSION + 1}

VARIABLES
  app,              \* "server" (Server.py) or "routes" (routes/training_routes.py)
  config,           \* the body the clients send with POST /api/training/start
  training_state,   \* Server.py: the TrainingState object
  req,              \* per start request: the handler / background task position
  response,         \* per start request: what the handler returned
  stopper,          \* the stop handler: position, result, number of calls
  child,            \* per request: the spawned training process
  lastSpawn,        \* the request and argument vector of the latest Popen
  watcher,          \* per request: the monitor_training_logs thread it started
  logfile,          \* the newest training_state_*.json file
  message_queue,    \* the queue.Queue between threads and the event loop
  sent,             \* the bag of the events handed to manager.broadcast (console
                    \* lines and optimisation notices are not recorded)
  training_process, \* training_routes.py: the global Popen handle
  training_status,  \* training_routes.py: the global status dict
  stop_monitoring,  \* training_routes.py: the threading.Event
  monitor_thread,   \* training_routes.py: the latest drain thread
  drain,            \* per request: the threaded_monitor_training_process thread
  active_connections,     \* ConnectionManager: the dict, as CPython keeps it
  connection_id_counter,  \* ConnectionManager: the counter
  sockets,          \* the number of WebSocket objects created so far
  closed,           \* the sockets on which the manager called close()
  sessions,         \* the sockets whose endpoint handler is in its receive loop
  connecting,       \* per task: a call of ConnectionManager.connect
  broadcasting,     \* a call of ConnectionManager.broadcast
  removed,          \* the connection ids that were deleted from the dict so far
  status_reply,     \* the status that the latest status query returned
  written,          \* the state snapshots the children have written so far
  logs              \* training_routes.py: the handler of GET /api/training/logs

\* The state of routes/training_routes.py only, and of Server.py only.
routesVars ==
  <<training_process, training_status, stop_monitoring, monitor_thread, drain>>
serverVars == <<training_state, watcher, logfile>>

\* The state of the ConnectionManager and of its callers.
registryVars ==
  <<active_connections, connection_id_counter, sockets, closed, sessions,
    connecting, broadcasting, removed>>

\* What the clients of the query endpoints see, and what they compare it with.
observerVars == <<status_reply, written, logs>>

vars == <<app, config, training_state, req, response, stopper, child, lastSpawn,
          watcher, logfile, message_queue, sent, routesVars, registryVars,
          observerVars>>

\* ------------------------------------------------------------ requests
ConfigPaths == {"cfg_ok", "cfg_missing"}
Checkpoints == {"none", "ckpt_ok", "ckpt_missing"}
ResumeModes == {"fresh", "latest", "specific"}
Stages == {1, 2}

\* The body of POST /api/training/start ("none": resume_checkpoint is null).
TrainingConfig ==
  [config_path : ConfigPaths, stage : Stages, resume_mode : ResumeModes,
   resume_checkpoint : Checkpoints]

\* Path(p).exists()
PathExists(p) == p \in {"cfg_ok", "ckpt_ok"}

NoChild == [st |-> "none", rc |-> 0, terms |-> 0, out |-> 0]
NoRequest == [pc |-> "idle", output_timeout |-> 0, return_code |-> 0]
NoWatcher ==
  [pc |-> "none", last_modified |-> 0, current_modified |-> 0, idle |-> FALSE,
   epoch |-> 0, loss |-> 0, stage |-> 0, retry |-> 0]
NoSpawn == [run |-> None, cmd |-> <<>>]
NoReply ==
  [seen |-> FALSE, is_training |-> FALSE, error |-> "none", epoch |-> 0,
   loss |-> 0, stage |-> 0]
NoLogs == [pc |-> "idle", calls |-> 0, temp_queue |-> <<>>, back |-> <<>>]

\* ------------------------------------------------------- child process
\* process.poll(): None (here "running") while the child lives.
Alive(ch, r) == ch[r].st = "alive"

\* process.terminate(): the signal is sent only to a child that still lives.
Terminate(ch, r) ==
  IF Alive(ch, r) THEN [ch EXCEPT ![r].terms = @ + 1] ELSE ch

\* The child prints one line on its stdout.
ChildPrint(r) ==
  /\ Alive(child, r)
  /\ child[r].out < MaxOut
  /\ child' = [child EXCEPT ![r].out = @ + 1]
  /\ UNCHANGED <<observerVars, registryVars, routesVars, app, config, training_state, req, response, stopper, lastSpawn,
                 watcher, logfile, message_queue, sent>>

\* The child exits: with its own exit code, or killed by a signal it was sent.
ChildExit(r, codes) ==
  /\ Alive(child, r)
  /\ \E rc \in (IF child[r].terms > 0 THEN {SIGTERM_RC} ELSE codes) :
       child' = [child EXCEPT ![r].st = "exited", ![r].rc = rc]
  /\ UNCHANGED <<observerVars, registryVars, routesVars, app, config, training_state, req, response, stopper, lastSpawn,
                 watcher, logfile, message_queue, sent>>

\* The child writes a new state snapshot training_state_stage_S_epoch_E.json.
ChildWrite(r) ==
  /\ Alive(child, r)
  /\ logfile.mtime < MaxWrites
  /\ \E l \in Losses :
       /\ logfile' = [mtime |-> logfile.mtime + 1, epoch |-> logfile.mtime + 1,
                      loss |-> l, stage |-> 1, partial |-> FALSE]
       /\ written' = written \cup {[epoch |-> logfile.mtime + 1, loss |-> l,
                                     stage |-> 1]}
  /\ UNCHANGED <<status_reply, logs, registryVars, routesVars, app, config, training_state, req, response, stopper, child, lastSpawn,
                 watcher, message_queue, sent>>

\* train_bailando.py 290-291: open(state_file, 'w'): the file of the next epoch
\* exists and is empty until the buffered json.dump reaches it.
ChildWriteOpen(r) ==
  /\ Alive(child, r)
  /\ ~logfile.partial
  /\ logfile.mtime < MaxWrites
  /\ logfile' = [mtime |-> logfile.mtime + 1, epoch |-> logfile.epoch + 1,
                 loss |-> 0, stage |-> 0, partial |-> TRUE]
  /\ UNCHANGED <<observerVars, registryVars, routesVars, app, config, training_state, req, response, stopper, child, lastSpawn,
                 watcher, message_queue, sent>>

\* train_bailando.py 291-292: the with block ends: the snapshot is flushed and
\* the file closed; its modification time is that of the open, or a later one.
ChildWriteClose(r) ==
  /\ logfile.partial
  /\ \E l \in Losses, later \in (IF logfile.mtime < MaxWrites THEN {0, 1} ELSE {0}) :
       /\ logfile' = [mtime |-> logfile.mtime + later, epoch |-> logfile.epoch,
                      loss |-> l, stage |-> 1, partial |-> FALSE]
       /\ written' = written \cup {[epoch |-> logfile.epoch, loss |-> l, stage |-> 1]}
  /\ UNCHANGED <<status_reply, logs, registryVars, routesVars, app, config, training_state, req, response, stopper, child, lastSpawn,
                 watcher, message_queue, sent>>

\* ------------------------------------------- Server.py: the start handler
\* Server.py 273-280: the child's argument vector.
ServerCmd(cfg) ==
  <<"--config", cfg.config_path, "--stage", ToString(cfg.stage)>> \o
  (IF cfg.resume_checkpoint # "none"
     THEN <<"--resume", cfg.resume_checkpoint>> ELSE <<>>)

\* POST /api/training/start up to its first await or its return.
start_training_Server(r, outcomes) ==
  /\ app = "server"
  /\ req[r].pc = "idle"
  /\ \A q \in Requests : q < r => req[q].pc # "idle"
  /\ \E optimized \in outcomes :
       IF training_state.is_training
       THEN /\ response' = [response EXCEPT ![r] = "AlreadyRunning"]
            /\ req' = [req EXCEPT ![r].pc = "rejected"]
            /\ sent' = sent
       ELSE IF ~PathExists(config.config_path)
       THEN /\ response' = [response EXCEPT ![r] = "ConfigNotFound"]
            /\ req' = [req EXCEPT ![r].pc = "rejected"]
            /\ sent' = sent
       ELSE IF optimized
       THEN \* auto_optimize: await manager.broadcast(opt_message)
            /\ req' = [req EXCEPT ![r].pc = "optimizing"]
            /\ sent' = sent
            /\ response' = response
       ELSE \* background_tasks.add_task(run_training_async, config); return
            /\ req' = [req EXCEPT ![r].pc = "scheduled"]
            /\ response' = [response EXCEPT ![r] = "training_started"]
            /\ sent' = sent
  /\ UNCHANGED <<observerVars, registryVars, routesVars, app, config, training_state, stopper, child, lastSpawn, watcher,
                 logfile, message_queue>>

\* The broadcast of the optimisation result returns; the handler adds the task.
start_training_Server_resume(r) ==
  /\ app = "server"
  /\ req[r].pc = "optimizing"
  /\ req' = [req EXCEPT ![r].pc = "scheduled"]
  /\ response' = [response EXCEPT ![r] = "training_started"]
  /\ UNCHANGED <<observerVars, registryVars, routesVars, app, config, training_state, stopper, child, lastSpawn, watcher,
                 logfile, message_queue, sent>>

\* ------------------------------- Server.py: run_training_async, the task
\* Time is counted in the half seconds the loop adds to output_timeout.
HalfSeconds(s) == 2 * s

HangAlert(r) == [type |-> "training_alert", level |-> "error", run |-> r]
CompletionMsg(r, rc, ts) ==
  [type |-> "training_completed", run |-> r, return_code |-> rc,
   success |-> (rc = 0), final_epoch |-> ts.current_epoch,
   final_loss |-> ts.current_loss]

\* Server.py 316-369: the body of the polling loop, from the queue drain (or
\* from inside it) to the next await.  rq and ch are the task's record and the
\* children as they are when the body is entered; quiet bounds the polls
\* without output.
LoopBody(r, rq, ch, quiet) ==
  IF message_queue # <<>>
  THEN \* message_queue.get_nowait(); await manager.broadcast(message)
       /\ message_queue' = Tail(message_queue)
       /\ sent' = sent
       /\ req' = [req EXCEPT ![r] = [rq EXCEPT !.pc = "drain"]]
       /\ child' = ch
  ELSE IF ch[r].out > 0
  THEN \* select: readable; readline: a line; await manager.broadcast(console)
       /\ child' = [ch EXCEPT ![r].out = @ - 1]
       /\ sent' = sent
       /\ req' = [req EXCEPT ![r] = [rq EXCEPT !.pc = "console", !.output_timeout = 0]]
       /\ message_queue' = message_queue
  ELSE \* nothing to read: += 0.5; an exception while reading: += 1
       \E inc \in {1, 2} :
         LET ot == rq.output_timeout + inc IN
         /\ ot <= quiet
         /\ message_queue' = message_queue
         /\ IF ot > HalfSeconds(max_timeout)
            THEN \* process.terminate(); await manager.broadcast(alert); break
                 /\ child' = Terminate(ch, r)
                 /\ sent' = sent (+) SetToBag({HangAlert(r)})
                 /\ req' = [req EXCEPT ![r] = [rq EXCEPT !.pc = "alert", !.output_timeout = ot]]
            ELSE \* await asyncio.sleep(0.1)
                 /\ child' = ch
                 /\ sent' = sent
                 /\ req' = [req EXCEPT ![r] = [rq EXCEPT !.pc = "sleep", !.output_timeout = ot]]

\* Server.py 379-398: the last drain of the queue, then the completion event.
FinalDrain(r, rq, ts) ==
  IF message_queue # <<>>
  THEN /\ message_queue' = Tail(message_queue)
       /\ sent' = sent
       /\ req' = [req EXCEPT ![r] = [rq EXCEPT !.pc = "finalDrain"]]
  ELSE /\ message_queue' = message_queue
       /\ sent' = sent (+) SetToBag({CompletionMsg(r, rq.return_code, ts)})
       /\ req' = [req EXCEPT ![r] = [rq EXCEPT !.pc = "completing"]]

\* Server.py 371-398: after the loop.
PostLoop(r) ==
  LET rc == IF Alive(child, r) THEN 0 - 1 ELSE child[r].rc
      ts == [training_state EXCEPT !.is_training = FALSE]
  IN /\ child' = Terminate(child, r)
     /\ training_state' = ts
     /\ FinalDrain(r, [req[r] EXCEPT !.return_code = rc], ts)

\* Server.py 264-309, and the first pass of the loop up to its first await.
run_training_async_begin(r, quiet) ==
  /\ app = "server"
  /\ req[r].pc = "scheduled"
  /\ training_state' = [training_state EXCEPT !.is_training = TRUE,
                                              !.current_process = r]
  /\ lastSpawn' = [run |-> r, cmd |-> ServerCmd(config)]
  /\ watcher' = [watcher EXCEPT ![r] = [NoWatcher EXCEPT !.pc = "check"]]
  /\ LoopBody(r, [req[r] EXCEPT !.output_timeout = 0],
              [child EXCEPT ![r] = [NoChild EXCEPT !.st = "alive"]], quiet)
  /\ UNCHANGED <<observerVars, registryVars, routesVars, app, config, response, stopper, logfile>>

\* Server.py 315: the loop condition, after asyncio.sleep returned.
run_training_async_loop(r, quiet) ==
  /\ app = "server"
  /\ req[r].pc = "sleep"
  /\ IF Alive(child, r) /\ training_state.is_training
     THEN /\ LoopBody(r, req[r], child, quiet)
          /\ training_state' = training_state
     ELSE PostLoop(r)
  /\ UNCHANGED <<observerVars, registryVars, routesVars, app, config, response, stopper, lastSpawn, watcher, logfile>>

\* Server.py 318-322: the broadcast of a queued message returned.
run_training_async_drain(r, quiet) ==
  /\ app = "server"
  /\ req[r].pc = "drain"
  /\ LoopBody(r, req[r], child, quiet)
  /\ UNCHANGED <<observerVars, registryVars, routesVars, app, config, training_state, response, stopper, lastSpawn, watcher, logfile>>

\* Server.py 342-369: the broadcast of a console line returned.
run_training_async_console(r) ==
  /\ app = "server"
  /\ req[r].pc = "console"
  /\ req' = [req EXCEPT ![r].pc = "sleep"]
  /\ UNCHANGED <<observerVars, registryVars, routesVars, app, config, training_state, response, stopper, child, lastSpawn,
                 watcher, logfile, message_queue, sent>>

\* Server.py 366-367: the broadcast of the hang alert returned; break.
run_training_async_alert(r) ==
  /\ app = "server"
  /\ req[r].pc = "alert"
  /\ PostLoop(r)
  /\ UNCHANGED <<observerVars, registryVars, routesVars, app, config, response, stopper, lastSpawn, watcher, logfile>>

\* Server.py 380-385: a broadcast of the last drain returned.
run_training_async_final(r) ==
  /\ app = "server"
  /\ req[r].pc = "finalDrain"
  /\ FinalDrain(r, req[r], training_state)
  /\ UNCHANGED <<observerVars, registryVars, routesVars, app, config, training_state, response, stopper, child, lastSpawn,
                 watcher, logfile>>

\* Server.py 398: the broadcast of the completion event returned.
run_training_async_end(r) ==
  /\ app = "server"
  /\ req[r].pc = "completing"
  /\ req' = [req EXCEPT ![r].pc = "done"]
  /\ UNCHANGED <<observerVars, registryVars, routesVars, app, config, training_state, response, stopper, child, lastSpawn,
                 watcher, logfile, message_queue, sent>>

\* The pcs at which the task awaits manager.broadcast.
AwaitsBroadcast == {"drain", "console", "alert", "finalDrain", "completing"}

TrainingErrorMsg(r) == [type |-> "training_error", run |-> r]

\* Server.py 400-410: manager.broadcast raised in the task (its for loop over
\* active_connections is outside its try, and a connect or disconnect handled
\* while a send is awaited makes the dict iterator raise RuntimeError, the
\* outcome "raised" of BroadcastFrom); except Exception, up to the await of
\* the broadcast of training_error, after which the task ends.
run_training_async_except(r) ==
  /\ app = "server"
  /\ req[r].pc \in AwaitsBroadcast
  /\ training_state' = [training_state EXCEPT !.is_training = FALSE]
  /\ sent' = sent (+) SetToBag({TrainingErrorMsg(r)})
  /\ req' = [req EXCEPT ![r].pc = "failed"]
  /\ UNCHANGED <<observerVars, registryVars, routesVars, app, config, response, stopper, child, lastSpawn,
                 watcher, logfile, message_queue>>

\* ------------------------------------------- Server.py: the stop handler
StoppedMsg(ts) ==
  [type |-> "training_stopped", final_epoch |-> ts.current_epoch,
   final_loss |-> ts.current_loss]

\* Server.py 636: if not training_state.is_training
NotRunningServer == ~training_state.is_training

\* POST /api/training/stop up to its await.  wait(timeout=10) blocks the event
\* loop: the child dies within it, or it raises TimeoutExpired.
stop_training_Server ==
  /\ app = "server"
  /\ stopper.pc = "idle"
  /\ stopper.calls < MaxStops
  /\ IF NotRunningServer
     THEN \* HTTPException(400)
          /\ stopper' = [stopper EXCEPT !.result = "NotRunning", !.calls = @ + 1]
          /\ UNCHANGED <<training_state, child, sent>>
     ELSE LET p == training_state.current_process
              signalled == IF p = None THEN child ELSE Terminate(child, p)
          IN \/ \* the child is gone when wait returns
                /\ child' = [q \in Requests |->
                               IF q = p /\ Alive(signalled, q)
                               THEN [signalled[q] EXCEPT !.st = "exited", !.rc = SIGTERM_RC]
                               ELSE signalled[q]]
                /\ training_state' = [training_state EXCEPT !.is_training = FALSE]
                /\ sent' = sent (+) SetToBag({StoppedMsg(training_state)})
                /\ stopper' = [stopper EXCEPT !.pc = "broadcast", !.calls = @ + 1]
             \/ \* TimeoutExpired: HTTPException(500)
                /\ p # None
                /\ Alive(child, p)
                /\ child' = signalled
                /\ stopper' = [stopper EXCEPT !.result = "error", !.calls = @ + 1]
                /\ UNCHANGED <<training_state, sent>>
  /\ UNCHANGED <<observerVars, registryVars, routesVars, app, config, req, response, lastSpawn, watcher, logfile, message_queue>>

\* Server.py 655-657: the broadcast of training_stopped returned; return.
stop_training_Server_return ==
  /\ app = "server"
  /\ stopper.pc = "broadcast"
  /\ stopper' = [stopper EXCEPT !.pc = "idle", !.result = "stopped"]
  /\ UNCHANGED <<observerVars, registryVars, routesVars, app, config, training_state, req, response, child, lastSpawn, watcher,
                 logfile, message_queue, sent>>

\* --------------------- monitor_training_logs: the state-file watcher thread
UpdateMsg(e, l, s) ==
  [type |-> "training_update", epoch |-> e, loss |-> l, stage |-> s]
ExplosionAlert(e) == [type |-> "training_alert", level |-> "critical", epoch |-> e]

\* A comparison that also takes a file as old as the watermark.
IsNewerOrSame(current_modified, last_modified) == current_modified >= last_modified

\* Server.py 215 (log_monitor.py 26): is the newest file newer than the last
\* one consumed?
IsNewer(current_modified, last_modified) == current_modified > last_modified

\* Server.py 242 (log_monitor.py 46): the loss-explosion test.
LossExploded(loss) == loss > LOSS_EXPLOSION

\* Server.py 206-215: the loop condition, the glob and the two stat calls.
\* idle records that the newest modification time is not above the watermark.
monitor_training_logs_poll(w) ==
  /\ watcher[w].pc = "check"
  /\ IF ~training_state.is_training
     THEN watcher' = [watcher EXCEPT ![w].pc = "exit"]
     ELSE watcher' =
            [watcher EXCEPT
               ![w].current_modified = logfile.mtime,
               ![w].idle = (logfile.mtime <= watcher[w].last_modified),
               ![w].pc = IF logfile.mtime # 0 /\ IsNewer(logfile.mtime, watcher[w].last_modified)
                           THEN "read" ELSE "sleep"]
  /\ UNCHANGED <<observerVars, registryVars, routesVars, app, config, training_state, req, response, stopper, child, lastSpawn,
                 logfile, message_queue, sent>>

\* A handler of the decode error that also moves the watermark.
AdvanceOnDecodeError(wt) ==
  [wt EXCEPT !.pc = "sleep", !.retry = wt.current_modified,
             !.last_modified = wt.current_modified]

\* Server.py 256-258 (log_monitor.py 58-60): except Exception: print, and
\* time.sleep(10); retry records the modification time of the file that did
\* not decode.
AfterDecodeError(wt) == [wt EXCEPT !.pc = "sleep", !.retry = wt.current_modified]

\* Server.py 216-217: open and json.load, the file as it is now; json.load
\* raises on a file that its writer has not flushed yet.
monitor_training_logs_read(w) ==
  /\ watcher[w].pc = "read"
  /\ watcher' = IF logfile.partial
                THEN [watcher EXCEPT ![w] = AfterDecodeError(watcher[w])]
                ELSE [watcher EXCEPT ![w].pc = "epoch", ![w].epoch = logfile.epoch,
                                     ![w].loss = logfile.loss, ![w].stage = logfile.stage]
  /\ UNCHANGED <<observerVars, registryVars, routesVars, app, config, training_state, req, response, stopper, child, lastSpawn,
                 logfile, message_queue, sent>>

\* Server.py 220: training_state.current_epoch = log_data.get('epoch', 0)
monitor_training_logs_epoch(w) ==
  /\ watcher[w].pc = "epoch"
  /\ training_state' = [training_state EXCEPT !.current_epoch = watcher[w].epoch]
  /\ watcher' = [watcher EXCEPT ![w].pc = "loss"]
  /\ UNCHANGED <<observerVars, registryVars, routesVars, app, config, req, response, stopper, child, lastSpawn, logfile,
                 message_queue, sent>>

\* Server.py 221: training_state.current_loss = log_data.get('loss', 0.0)
monitor_training_logs_loss(w) ==
  /\ watcher[w].pc = "loss"
  /\ training_state' = [training_state EXCEPT !.current_loss = watcher[w].loss]
  /\ watcher' = [watcher EXCEPT ![w].pc = "stage"]
  /\ UNCHANGED <<observerVars, registryVars, routesVars, app, config, req, response, stopper, child, lastSpawn, logfile,
                 message_queue, sent>>

\* Server.py 222: training_state.current_stage = log_data.get('stage', 1)
monitor_training_logs_stage(w) ==
  /\ watcher[w].pc = "stage"
  /\ training_state' = [training_state EXCEPT !.current_stage = watcher[w].stage]
  /\ watcher' = [watcher EXCEPT ![w].pc = "put"]
  /\ UNCHANGED <<observerVars, registryVars, routesVars, app, config, req, response, stopper, child, lastSpawn, logfile,
                 message_queue, sent>>

\* Server.py 226-242: the update message is built from training_state, put on
\* the queue, and the watermark moves.
monitor_training_logs_put(w) ==
  /\ watcher[w].pc = "put"
  /\ Len(message_queue) < MaxQueue
  /\ message_queue' =
       Append(message_queue,
              UpdateMsg(training_state.current_epoch, training_state.current_loss,
                        training_state.current_stage))
  /\ watcher' = [watcher EXCEPT
                   ![w].last_modified = watcher[w].current_modified,
                   ![w].retry = 0,
                   ![w].pc = IF LossExploded(watcher[w].loss) THEN "alert" ELSE "sleep"]
  /\ UNCHANGED <<observerVars, registryVars, routesVars, app, config, training_state, req, response, stopper, child, lastSpawn,
                 logfile, sent>>

\* Server.py 243-252: the critical alert.
monitor_training_logs_alert(w) ==
  /\ watcher[w].pc = "alert"
  /\ Len(message_queue) < MaxQueue
  /\ message_queue' = Append(message_queue, ExplosionAlert(watcher[w].epoch))
  /\ watcher' = [watcher EXCEPT ![w].pc = "sleep"]
  /\ UNCHANGED <<observerVars, registryVars, routesVars, app, config, training_state, req, response, stopper, child, lastSpawn,
                 logfile, sent>>

\* Server.py 254: time.sleep(5) returns.
monitor_training_logs_sleep(w) ==
  /\ watcher[w].pc = "sleep"
  /\ watcher' = [watcher EXCEPT ![w] = [NoWatcher EXCEPT !.pc = "check",
                                   !.last_modified = watcher[w].last_modified,
                                   !.retry = watcher[w].retry]]
  /\ UNCHANGED <<observerVars, registryVars, routesVars, app, config, training_state, req, response, stopper, child, lastSpawn,
                 logfile, message_queue, sent>>

\* --------------------------------------------------------- Server.py
\* ===================================================== ConnectionManager
\* websocket_manager.py (Server.py 109-189 is the same class).  The dict
\* active_connections is modelled as CPython keeps it: an array of entries in
\* insertion order in which a deleted entry leaves a hole, and which is
\* compacted when an insertion finds no usable slot left.
PyDict_MINSIZE == 8
USABLE_FRACTION(n) == (2 * n) \div 3

\* calculate_log2_keysize: the size of the table after a resize.
NewKeysSize(minsize) ==
  IF minsize \in {0, PyDict_MINSIZE} THEN PyDict_MINSIZE
  ELSE IF minsize < 16 THEN 16 ELSE 32

Tasks == 1..MaxTasks
ClientIds == {"none", "A"}

Tomb == [id |-> 0, ws |-> 0, client |-> "deleted"]
EmptyDict == [entries |-> <<>>, usable |-> USABLE_FRACTION(PyDict_MINSIZE)]

IsLive(e) == e.id # 0
LiveEntries(d) == SelectSeq(d.entries, IsLive)
Used(d) == Len(LiveEntries(d))
Ids(d) == {d.entries[i].id : i \in {j \in DOMAIN d.entries : IsLive(d.entries[j])}}
EntryOf(d, id) == CHOOSE i \in DOMAIN d.entries : d.entries[i].id = id

\* del d[key]: the entry becomes a hole.
DictDelete(d, id) ==
  IF id \in Ids(d) THEN [d EXCEPT !.entries[EntryOf(d, id)] = Tomb] ELSE d

\* d[key] = value for a new key: insertion_resize when no slot is usable.
DictInsert(d, e) ==
  LET r == IF d.usable <= 0
           THEN [entries |-> LiveEntries(d),
                 usable |-> USABLE_FRACTION(NewKeysSize(3 * Used(d))) - Used(d)]
           ELSE d
  IN [entries |-> Append(r.entries, e), usable |-> r.usable - 1]

\* iter(d.items())
NoIter == [pos |-> 0, used |-> 0, len |-> 0]
DictIter(d) == [pos |-> 1, used |-> Used(d), len |-> Used(d)]

RECURSIVE NextLive(_, _)
NextLive(entries, i) ==
  IF i > Len(entries) THEN 0
  ELSE IF IsLive(entries[i]) THEN i ELSE NextLive(entries, i + 1)

\* dictiter_iternextitem: "size" and "keys" are the two RuntimeErrors.
IterNext(d, it) ==
  LET i == NextLive(d.entries, it.pos) IN
  IF it.used # Used(d) THEN [kind |-> "size", idx |-> 0, it |-> it]
  ELSE IF i = 0 THEN [kind |-> "stop", idx |-> 0, it |-> it]
  ELSE IF it.len = 0 THEN [kind |-> "keys", idx |-> 0, it |-> it]
  ELSE [kind |-> "item", idx |-> i,
        it |-> [it EXCEPT !.pos = i + 1, !.len = @ - 1]]

NoConnect ==
  [pc |-> "idle", ws |-> 0, id |-> 0, client |-> "none", it |-> NoIter,
   to_remove |-> <<>>]
NoBroadcast ==
  [pc |-> "idle", calls |-> 0, it |-> NoIter, cur |-> Tomb, failed |-> <<>>,
   start |-> {}, snapshot |-> <<>>, attempted |-> {}, delivered |-> {},
   disturbed |-> FALSE, after |-> {}]

\* Everything but the ConnectionManager and its callers.
appVars ==
  <<app, config, training_state, req, response, stopper, child, lastSpawn, watcher,
    logfile, message_queue, sent, routesVars>>

\* websocket_manager.py 30: client_identifier or 'anonymous'
StoredClient(c) == IF c = "none" THEN "anonymous" ELSE c

RECURSIVE DeleteAll(_, _)
\* websocket_manager.py 24-26 and 67-69: delete the listed ids still present.
DeleteAll(d, ids) ==
  IF ids = <<>> THEN d ELSE DeleteAll(DictDelete(d, Head(ids)), Tail(ids))

\* A removal loop that deletes nothing.
KeepFailed(d, failed) == d

\* websocket_manager.py 67-69: the failed connections are removed.
RemoveFailed(d, failed) == DeleteAll(d, failed)

RECURSIVE Scan(_, _, _)
\* websocket_manager.py 17-18: the for loop of connect up to the next entry of
\* the same client, the end of the dict, or a RuntimeError of the iterator.
Scan(d, it, client) ==
  LET n == IterNext(d, it) IN
  IF n.kind # "item" THEN n
  ELSE IF d.entries[n.idx].client = client THEN n
  ELSE Scan(d, n.it, client)

\* websocket_manager.py 11-12: connect is called with a new socket and awaits
\* websocket.accept(); limit bounds the sockets that are ever created.
connect_call(t, c, limit) ==
  /\ connecting[t].pc = "idle"
  /\ sockets < limit
  /\ sockets' = sockets + 1
  /\ connecting' = [connecting EXCEPT ![t] =
                      [NoConnect EXCEPT !.pc = "accept", !.ws = sockets + 1, !.client = c]]
  /\ UNCHANGED <<observerVars, appVars, active_connections, connection_id_counter, closed, sessions,
                 broadcasting, removed>>

\* The ids that a step deletes from the dict join the ids deleted before.
RecordRemoved ==
  removed' = removed \cup (Ids(active_connections) \ Ids(active_connections'))

\* websocket_manager.py 17-36 from the iterator it on: to the await of close(),
\* to the return, or to the RuntimeError that ends the endpoint handler.
ConnectFrom(t, id, it) ==
  LET task == connecting[t]
      n == IF task.client = "none"
           THEN [kind |-> "stop", idx |-> 0, it |-> it]
           ELSE Scan(active_connections, it, task.client)
  IN IF n.kind = "item"
     THEN /\ closed' = closed \cup {active_connections.entries[n.idx].ws}
          /\ connecting' = [connecting EXCEPT ![t] =
               [task EXCEPT !.pc = "closing", !.id = id, !.it = n.it,
                            !.to_remove = Append(@, active_connections.entries[n.idx].id)]]
          /\ UNCHANGED <<active_connections, sessions>>
     ELSE IF n.kind = "stop"
     THEN /\ active_connections' =
               DictInsert(DeleteAll(active_connections, task.to_remove),
                          [id |-> id, ws |-> task.ws, client |-> StoredClient(task.client)])
          /\ sessions' = sessions \cup {task.ws}
          /\ connecting' = [connecting EXCEPT ![t] = NoConnect]
          /\ closed' = closed
     ELSE \* RuntimeError: the endpoint calls disconnect(websocket), which finds nothing
          /\ connecting' = [connecting EXCEPT ![t] = NoConnect]
          /\ UNCHANGED <<active_connections, sessions, closed>>

\* websocket_manager.py 13-17: accept() returned.
connect_accepted(t) ==
  /\ connecting[t].pc = "accept"
  /\ connection_id_counter' = connection_id_counter + 1
  /\ ConnectFrom(t, connection_id_counter + 1,
                 IF connecting[t].client = "none"
                 THEN NoIter ELSE DictIter(active_connections))
  /\ RecordRemoved
  /\ UNCHANGED <<observerVars, appVars, sockets, broadcasting>>

\* websocket_manager.py 20-23: close() returned (or raised, which is swallowed).
connect_closed(t) ==
  /\ connecting[t].pc = "closing"
  /\ ConnectFrom(t, connecting[t].id, connecting[t].it)
  /\ RecordRemoved
  /\ UNCHANGED <<observerVars, appVars, connection_id_counter, sockets, broadcasting>>

\* A handler that ends without unregistering its socket.
DisconnectNever(d, ws) == d

\* A lookup that takes the first connection, whatever its socket.
DisconnectAny(d, ws) ==
  LET held == {i \in DOMAIN d.entries : IsLive(d.entries[i])}
  IN IF held = {} THEN d
     ELSE [d EXCEPT !.entries[CHOOSE i \in held : \A k \in held : i <= k] = Tomb]

\* websocket_manager.py 39-46: the first entry holding the socket is deleted,
\* if there is one.
DisconnectSocket(d, ws) ==
  LET held == {i \in DOMAIN d.entries : d.entries[i].ws = ws}
  IN IF held = {} THEN d
     ELSE [d EXCEPT !.entries[CHOOSE i \in held : \A k \in held : i <= k] = Tomb]

\* websocket_manager.py 38-47: the endpoint handler of socket ws ends and calls
\* disconnect(websocket).
disconnect(ws) ==
  /\ ws \in sessions
  /\ sessions' = sessions \ {ws}
  /\ active_connections' = DisconnectSocket(active_connections, ws)
  /\ RecordRemoved
  /\ UNCHANGED <<observerVars, appVars, connection_id_counter, sockets, closed, connecting,
                 broadcasting>>

\* websocket_manager.py 61-69 from the iterator it on: to the await of the
\* next send_text, to the removal loop and the return, or to a RuntimeError.
BroadcastFrom(b, it) ==
  LET n == IterNext(active_connections, it)
      bd == [b EXCEPT !.disturbed = @ \/ (active_connections # b.snapshot)]
  IN IF n.kind = "item"
     THEN /\ broadcasting' =
               [bd EXCEPT !.pc = "sending", !.it = n.it,
                          !.cur = active_connections.entries[n.idx],
                          !.attempted = @ \cup {active_connections.entries[n.idx].id}]
          /\ active_connections' = active_connections
     ELSE IF n.kind = "stop"
     THEN /\ active_connections' = RemoveFailed(active_connections, b.failed)
          /\ broadcasting' =
               [bd EXCEPT !.pc = "returned",
                          !.after = Ids(RemoveFailed(active_connections, b.failed))]
     ELSE /\ broadcasting' = [bd EXCEPT !.pc = "raised"]
          /\ active_connections' = active_connections

\* websocket_manager.py 57-64: broadcast is called.
broadcast_call ==
  /\ broadcasting.pc \in {"idle", "returned", "raised"}
  /\ broadcasting.calls < MaxBroadcasts
  /\ IF Used(active_connections) = 0
     THEN /\ broadcasting' = [NoBroadcast EXCEPT !.pc = "returned",
                                                 !.calls = broadcasting.calls + 1,
                                                 !.snapshot = active_connections]
          /\ active_connections' = active_connections
     ELSE BroadcastFrom([NoBroadcast EXCEPT !.calls = broadcasting.calls + 1,
                                            !.start = Ids(active_connections),
                                            !.snapshot = active_connections],
                        DictIter(active_connections))
  /\ RecordRemoved
  /\ UNCHANGED <<observerVars, appVars, connection_id_counter, sockets, closed, sessions, connecting>>

\* websocket_manager.py 64-66: send_text returned or raised; a socket that was
\* closed cannot be written.
broadcast_sent ==
  /\ broadcasting.pc = "sending"
  /\ LET e == broadcasting.cur IN
     \E ok \in (IF e.ws \in closed THEN {FALSE} ELSE BOOLEAN) :
       BroadcastFrom([broadcasting EXCEPT
                        !.failed = IF ok THEN @ ELSE Append(@, e.id),
                        !.delivered = IF ok THEN @ \cup {e.id} ELSE @],
                     broadcasting.it)
  /\ RecordRemoved
  /\ UNCHANGED <<observerVars, appVars, connection_id_counter, sockets, closed, sessions, connecting>>

NoDrain == [pc |-> "none", handle |-> None, rc |-> 0, lines |-> 0]

\* The state after the module is loaded, whichever server it is.
InitState ==
  /\ config \in TrainingConfig
  /\ training_process = None
  /\ training_status = [is_training |-> FALSE, process_id |-> None, error |-> "none"]
  /\ stop_monitoring = FALSE
  /\ monitor_thread = None
  /\ drain = [r \in Requests |-> NoDrain]
  /\ active_connections = EmptyDict
  /\ connection_id_counter = 0
  /\ sockets = 0
  /\ closed = {}
  /\ sessions = {}
  /\ connecting = [t \in Tasks |-> NoConnect]
  /\ broadcasting = NoBroadcast
  /\ removed = {}
  /\ training_state = [is_training |-> FALSE, current_process |-> None,
                       current_epoch |-> 0, current_loss |-> 0, current_stage |-> 1]
  /\ req = [r \in Requests |-> NoRequest]
  /\ response = [r \in Requests |-> "none"]
  /\ stopper = [pc |-> "idle", result |-> "none", calls |-> 0, handle |-> None]
  /\ child = [r \in Requests |-> NoChild]
  /\ lastSpawn = NoSpawn
  /\ watcher = [r \in Requests |-> NoWatcher]
  /\ logfile = [mtime |-> 0, epoch |-> 0, loss |-> 0, stage |-> 0, partial |-> FALSE]
  /\ message_queue = <<>>
  /\ sent = EmptyBag
  /\ status_reply = NoReply
  /\ written = {}
  /\ logs = NoLogs

InitServer == app = "server" /\ InitState

NextServer ==
  \/ \E r \in Requests :
       \/ start_training_Server(r, BOOLEAN)
       \/ start_training_Server_resume(r)
       \/ run_training_async_begin(r, MaxQuiet)
       \/ run_training_async_loop(r, MaxQuiet)
       \/ run_training_async_console(r)
       \/ run_training_async_end(r)
       \/ ChildPrint(r)
       \/ ChildExit(r, ExitCodes)
  \/ stop_training_Server
  \/ stop_training_Server_return

SpecServer == InitServer /\ [][NextServer]_vars

\* ------------------------------------------------- Server.py: telemetry
\* The watcher threads, the state files and the queue, for one valid request
\* body, a child that prints nothing and exits with 0, and a client that sends
\* the next start request when the run before it has completed.
DefaultConfig ==
  [config_path |-> "cfg_ok", stage |-> 1, resume_mode |-> "fresh",
   resume_checkpoint |-> "none"]

InitWatcher == InitServer /\ config = DefaultConfig

NextWatcher ==
  \E r \in Requests :
    \/ /\ \A q \in Requests : q < r => req[q].pc = "done"
       /\ start_training_Server(r, {FALSE})
    \/ run_training_async_begin(r, MaxQuiet)
    \/ run_training_async_loop(r, MaxQuiet)
    \/ run_training_async_drain(r, MaxQuiet)
    \/ run_training_async_final(r)
    \/ run_training_async_end(r)
    \/ ChildExit(r, {0})
    \/ ChildWrite(r)
    \/ monitor_training_logs_poll(r)
    \/ monitor_training_logs_read(r)
    \/ monitor_training_logs_epoch(r)
    \/ monitor_training_logs_loss(r)
    \/ monitor_training_logs_stage(r)
    \/ monitor_training_logs_put(r)
    \/ monitor_training_logs_alert(r)
    \/ monitor_training_logs_sleep(r)

SpecWatcher == InitWatcher /\ [][NextWatcher]_vars

\* ------------------------------------------ Server.py: the status endpoint
\* Server.py 414-433 (status_routes.py 11-29): GET /api/status returns the
\* fields of training_state as they are; the handler has no await, its four
\* attribute reads are taken as one step.
get_server_status ==
  /\ app = "server"
  /\ status_reply' = [NoReply EXCEPT !.seen = TRUE,
                                     !.is_training = training_state.is_training,
                                     !.epoch = training_state.current_epoch,
                                     !.loss = training_state.current_loss,
                                     !.stage = training_state.current_stage]
  /\ UNCHANGED <<written, logs, registryVars, routesVars, app, config, training_state, req,
                 response, stopper, child, lastSpawn, watcher, logfile, message_queue, sent>>

\* One run, its watcher and its state files, and a client that polls the status.
NextStatus ==
  \/ start_training_Server(1, {FALSE})
  \/ run_training_async_begin(1, MaxQuiet)
  \/ run_training_async_loop(1, MaxQuiet)
  \/ run_training_async_drain(1, MaxQuiet)
  \/ run_training_async_final(1)
  \/ run_training_async_end(1)
  \/ ChildExit(1, {0})
  \/ ChildWrite(1)
  \/ monitor_training_logs_poll(1)
  \/ monitor_training_logs_read(1)
  \/ monitor_training_logs_epoch(1)
  \/ monitor_training_logs_loss(1)
  \/ monitor_training_logs_stage(1)
  \/ monitor_training_logs_put(1)
  \/ monitor_training_logs_alert(1)
  \/ monitor_training_logs_sleep(1)
  \/ get_server_status

SpecStatus == InitWatcher /\ [][NextStatus]_vars

\* ------------------------------------- Server.py: a watcher and a writer
\* One run whose child writes its state files in two steps, open and close.
NextDecode ==
  \/ start_training_Server(1, {FALSE})
  \/ run_training_async_begin(1, MaxQuiet)
  \/ run_training_async_loop(1, MaxQuiet)
  \/ run_training_async_drain(1, MaxQuiet)
  \/ run_training_async_final(1)
  \/ run_training_async_end(1)
  \/ ChildExit(1, {0})
  \/ ChildWriteOpen(1)
  \/ ChildWriteClose(1)
  \/ monitor_training_logs_poll(1)
  \/ monitor_training_logs_read(1)
  \/ monitor_training_logs_epoch(1)
  \/ monitor_training_logs_loss(1)
  \/ monitor_training_logs_stage(1)
  \/ monitor_training_logs_put(1)
  \/ monitor_training_logs_alert(1)
  \/ monitor_training_logs_sleep(1)

SpecDecode == InitWatcher /\ [][NextDecode]_vars

\* ------------------------------- Server.py: the scheduling of the threads
\* A step of the watcher thread of run w when no state file is written.
WatcherStep(w) ==
  \/ monitor_training_logs_poll(w)
  \/ monitor_training_logs_sleep(w)

\* A step of the event loop for request r: its start handler, sent when the
\* run before it has completed, or its task.
LoopStep(r) ==
  \/ /\ \A q \in Requests : q < r => req[q].pc = "done"
     /\ start_training_Server(r, {FALSE})
  \/ run_training_async_begin(r, MaxQuiet)
  \/ run_training_async_loop(r, MaxQuiet)
  \/ run_training_async_console(r)
  \/ run_training_async_end(r)

\* A step of the child of run r.
ChildStep(r) == ChildPrint(r) \/ ChildExit(r, {0})

\* Two runs, one after the other, whose children write no state file.  The
\* operating system schedules every thread that can run and the event loop
\* every task that is ready.  A child goes on printing or exits, as it
\* pleases: it never stays silent for the MaxQuiet polls that bound the loop
\* here (a silent child is the subject of SpecHang).
NextExit ==
  \E r \in Requests :
    \/ LoopStep(r)
    \/ WatcherStep(r)
    \/ ChildPrint(r)
    \/ ChildExit(r, {0})

SpecExit ==
  /\ InitWatcher
  /\ [][NextExit]_vars
  /\ \A r \in Requests :
       WF_vars(WatcherStep(r)) /\ WF_vars(LoopStep(r)) /\ WF_vars(ChildStep(r))

\* ------------------------------------------- Server.py: the hang timeout
\* One run whose child may stay silent for longer than max_timeout.
MaxSilence == HalfSeconds(max_timeout) + 2

NextHang ==
  \/ start_training_Server(1, {FALSE})
  \/ run_training_async_begin(1, MaxSilence)
  \/ run_training_async_loop(1, MaxSilence)
  \/ run_training_async_console(1)
  \/ run_training_async_alert(1)
  \/ run_training_async_end(1)
  \/ ChildPrint(1)
  \/ ChildExit(1, {0})

SpecHang == InitWatcher /\ [][NextHang]_vars

\* ----------------------------------- Server.py: a failing background task
\* Runs in which a broadcast of the task may raise; no stop request.
NextFailure ==
  \E r \in Requests :
    \/ start_training_Server(r, {FALSE})
    \/ run_training_async_begin(r, MaxQuiet)
    \/ run_training_async_loop(r, MaxQuiet)
    \/ run_training_async_console(r)
    \/ run_training_async_end(r)
    \/ run_training_async_except(r)
    \/ ChildPrint(r)
    \/ ChildExit(r, ExitCodes)

SpecFailure == InitWatcher /\ [][NextFailure]_vars

\* ============================================ routes/training_routes.py
\* websocket_manager is taken as set (set_websocket_manager was called when the
\* application was assembled).
SIGKILL_RC == 0 - 9

\* While a handler blocks in wait() or join(), or runs code without an await,
\* the event loop runs nothing else.
LoopFree == stopper.pc \notin {"wait", "join"} /\ logs.pc = "idle"

\* training_routes.py 250-274: the child's argument vector.
RoutesCmd(cfg) ==
  <<"--config", cfg.config_path, "--stage", ToString(cfg.stage)>> \o
  (IF cfg.resume_mode = "latest" THEN <<"--resume", "latest">>
   ELSE IF cfg.resume_mode = "specific" /\ cfg.resume_checkpoint # "none"
     THEN <<"--resume", cfg.resume_checkpoint>>
   ELSE <<>>)

StartedMsg(r) == [type |-> "training_started", run |-> r]
CompleteMsg(r, rc) ==
  [type |-> "training_complete", run |-> r, return_code |-> rc, success |-> (rc = 0)]
ErrorMsg(r) == [type |-> "training_error", run |-> r]
LogMsg(r, n) == [type |-> "training_log", run |-> r, n |-> n]
StoppedMsgRoutes == [type |-> "training_stopped"]

\* The error texts derived from an exit code, and the text of an exception.
DrainError(rc) == "Process ended with code " \o ToString(rc)
StatusError(rc) == "Process ended with exit code " \o ToString(rc)
ExceptionText == "'NoneType' object has no attribute 'poll'"

\* training_routes.py 227-312: POST /api/training/start up to its await.
start_training_routes(r) ==
  /\ app = "routes"
  /\ LoopFree
  /\ req[r].pc = "idle"
  /\ \A q \in Requests : q < r => req[q].pc # "idle"
  /\ IF training_status.is_training
     THEN /\ response' = [response EXCEPT ![r] = "AlreadyRunning"]
          /\ req' = [req EXCEPT ![r].pc = "rejected"]
          /\ UNCHANGED <<routesVars, child, lastSpawn, sent>>
     ELSE IF ~PathExists(config.config_path)
     THEN /\ response' = [response EXCEPT ![r] = "ConfigNotFound"]
          /\ req' = [req EXCEPT ![r].pc = "rejected"]
          /\ UNCHANGED <<routesVars, child, lastSpawn, sent>>
     ELSE IF /\ config.resume_mode = "specific"
             /\ config.resume_checkpoint # "none"
             /\ ~PathExists(config.resume_checkpoint)
     THEN /\ response' = [response EXCEPT ![r] = "CheckpointNotFound"]
          /\ req' = [req EXCEPT ![r].pc = "rejected"]
          /\ UNCHANGED <<routesVars, child, lastSpawn, sent>>
     ELSE \* Popen, status update, thread start, await broadcast
          /\ training_process' = r
          /\ child' = [child EXCEPT ![r] = [NoChild EXCEPT !.st = "alive"]]
          /\ lastSpawn' = [run |-> r, cmd |-> RoutesCmd(config)]
          /\ training_status' =
               [is_training |-> TRUE, process_id |-> r, error |-> "none"]
          /\ stop_monitoring' = FALSE
          /\ monitor_thread' = r
          /\ drain' = [drain EXCEPT ![r] = [NoDrain EXCEPT !.pc = "start"]]
          /\ sent' = sent (+) SetToBag({StartedMsg(r)})
          /\ req' = [req EXCEPT ![r].pc = "broadcast"]
          /\ response' = response
  /\ UNCHANGED <<observerVars, registryVars, serverVars, app, config, stopper, message_queue>>

\* training_routes.py 312-320: the broadcast returned; return success.
start_training_routes_return(r) ==
  /\ app = "routes"
  /\ LoopFree
  /\ req[r].pc = "broadcast"
  /\ req' = [req EXCEPT ![r].pc = "done"]
  /\ response' = [response EXCEPT ![r] = "training_started"]
  /\ UNCHANGED <<observerVars, registryVars, serverVars, routesVars, app, config, stopper, child, lastSpawn,
                 message_queue, sent>>

\* training_routes.py 413-414: the tracked process has ended and the status
\* does not say so yet.
ProcessEnded ==
  /\ training_process # None
  /\ training_status.is_training
  /\ ~Alive(child, training_process)

\* training_routes.py 416-428: the status after the reconciliation.
Reconciled(rc) ==
  [is_training |-> FALSE, process_id |-> None,
   error |-> IF rc # 0 THEN StatusError(rc) ELSE "none"]

\* training_routes.py 407-434: GET /api/training/status.
get_training_status ==
  /\ app = "routes"
  /\ LoopFree
  /\ LET st == IF ProcessEnded THEN Reconciled(child[training_process].rc)
               ELSE training_status
     IN /\ training_status' = st
        /\ status_reply' = [NoReply EXCEPT !.seen = TRUE,
                                           !.is_training = st.is_training,
                                           !.error = st.error]
  /\ training_process' = IF ProcessEnded THEN None ELSE training_process
  /\ UNCHANGED <<written, logs, registryVars, serverVars, stop_monitoring, monitor_thread, drain,
                 app, config, req, response, stopper, child, lastSpawn, message_queue, sent>>

\* The guard without its test of the status flag.
HandleMissing == training_process = None

\* training_routes.py 349: if not training_process or not is_training
NotRunningRoutes == training_process = None \/ ~training_status.is_training

\* training_routes.py 343-363: POST /api/training/stop up to the blocking wait.
stop_training_routes ==
  /\ app = "routes"
  /\ stopper.pc = "idle"
  /\ stopper.calls < MaxStops
  /\ IF NotRunningRoutes
     THEN /\ stopper' = [stopper EXCEPT !.result = "NotRunning", !.calls = @ + 1]
          /\ UNCHANGED <<stop_monitoring, child>>
     ELSE /\ stop_monitoring' = TRUE
          /\ child' = Terminate(child, training_process)
          /\ stopper' = [stopper EXCEPT !.pc = "wait", !.calls = @ + 1,
                                        !.handle = training_process]
  /\ UNCHANGED <<observerVars, registryVars, serverVars, training_process, training_status, monitor_thread, drain,
                 app, config, req, response, lastSpawn, message_queue, sent>>

\* training_routes.py 363-380: wait(timeout=5) returned or timed out (kill, wait);
\* the status update; the handle is cleared; join(timeout=2) is entered.
stop_training_routes_wait ==
  /\ app = "routes"
  /\ stopper.pc = "wait"
  /\ IF Alive(child, stopper.handle) /\ training_process = None
     THEN \* TimeoutExpired, then training_process.kill() on None: except
          /\ stopper' = [stopper EXCEPT !.pc = "idle", !.result = "error"]
          /\ UNCHANGED <<child, training_status, training_process>>
     ELSE /\ child' =
               IF Alive(child, stopper.handle)
               THEN [child EXCEPT ![training_process].st = "exited",
                                  ![training_process].rc = SIGKILL_RC]
               ELSE child
          /\ training_status' =
               [is_training |-> FALSE, process_id |-> None, error |-> "none"]
          /\ training_process' = None
          /\ stopper' = [stopper EXCEPT !.pc = "join"]
  /\ UNCHANGED <<observerVars, registryVars, serverVars, stop_monitoring, monitor_thread, drain, app, config, req,
                 response, lastSpawn, message_queue, sent>>

\* training_routes.py 379-391: join returned (the thread ended, or 2 s passed);
\* await the broadcast of training_stopped.
stop_training_routes_join ==
  /\ app = "routes"
  /\ stopper.pc = "join"
  /\ sent' = sent (+) SetToBag({StoppedMsgRoutes})
  /\ stopper' = [stopper EXCEPT !.pc = "broadcast"]
  /\ UNCHANGED <<observerVars, registryVars, serverVars, routesVars, app, config, req, response, child, lastSpawn,
                 message_queue>>

\* training_routes.py 392-396: the broadcast returned; return success.
stop_training_routes_return ==
  /\ app = "routes"
  /\ stopper.pc = "broadcast"
  /\ stopper' = [stopper EXCEPT !.pc = "idle", !.result = "stopped"]
  /\ UNCHANGED <<observerVars, registryVars, serverVars, routesVars, app, config, req, response, child, lastSpawn,
                 message_queue, sent>>

\* ------------------- threaded_monitor_training_process: the drain thread
\* The thread of request d moves to pc; nothing else of the thread changes.
DrainGoto(d, pc) == drain' = [drain EXCEPT ![d].pc = pc]

\* training_routes.py 62-63: if not training_process: return
drain_start(d) ==
  /\ drain[d].pc = "start"
  /\ DrainGoto(d, IF training_process = None THEN "done" ELSE "poll")
  /\ UNCHANGED <<observerVars, registryVars, serverVars, training_process, training_status, stop_monitoring,
                 monitor_thread, app, config, req, response, stopper, child, lastSpawn,
                 message_queue, sent>>

\* training_routes.py 69: the loop condition, read from the global handle.
drain_poll(d) ==
  /\ drain[d].pc = "poll"
  /\ DrainGoto(d, IF training_process = None THEN "except"
                  ELSE IF Alive(child, training_process) /\ ~stop_monitoring
                    THEN "readline" ELSE "ended")
  /\ UNCHANGED <<observerVars, registryVars, serverVars, training_process, training_status, stop_monitoring,
                 monitor_thread, app, config, req, response, stopper, child, lastSpawn,
                 message_queue, sent>>

\* training_routes.py 71: training_process.stdout.readline() is called; it
\* raises inside the inner try (break) when the handle is None.
drain_readline(d) ==
  /\ drain[d].pc = "readline"
  /\ drain' = IF training_process = None
              THEN [drain EXCEPT ![d].pc = "ended"]
              ELSE [drain EXCEPT ![d].pc = "blocked", ![d].handle = training_process]
  /\ UNCHANGED <<observerVars, registryVars, serverVars, training_process, training_status, stop_monitoring,
                 monitor_thread, app, config, req, response, stopper, child, lastSpawn,
                 message_queue, sent>>

\* training_routes.py 71-104: readline returns a line, which is put on the
\* queue and handed to websocket_manager.broadcast on the thread's own event
\* loop, or it returns the empty string at the end of the stream.
drain_readline_return(d) ==
  /\ drain[d].pc = "blocked"
  /\ LET h == drain[d].handle
         m == LogMsg(h, drain[d].lines + 1)
     IN IF child[h].out > 0
        THEN /\ child' = [child EXCEPT ![h].out = @ - 1]
             /\ message_queue' = Append(message_queue, m)
             /\ sent' = sent (+) SetToBag({m})
             /\ drain' = [drain EXCEPT ![d].pc = "poll", ![d].lines = @ + 1]
        ELSE /\ ~Alive(child, h)
             /\ DrainGoto(d, "poll")
             /\ UNCHANGED <<child, message_queue, sent>>
  /\ UNCHANGED <<observerVars, registryVars, serverVars, training_process, training_status, stop_monitoring,
                 monitor_thread, app, config, req, response, stopper, lastSpawn>>

\* training_routes.py 164: if training_process:
drain_ended(d) ==
  /\ drain[d].pc = "ended"
  /\ DrainGoto(d, IF training_process = None THEN "finally" ELSE "wait")
  /\ UNCHANGED <<observerVars, registryVars, serverVars, training_process, training_status, stop_monitoring,
                 monitor_thread, app, config, req, response, stopper, child, lastSpawn,
                 message_queue, sent>>

\* training_routes.py 165: training_process.wait() is called.
drain_wait(d) ==
  /\ drain[d].pc = "wait"
  /\ drain' = IF training_process = None
              THEN [drain EXCEPT ![d].pc = "except"]
              ELSE [drain EXCEPT ![d].pc = "waiting", ![d].handle = training_process]
  /\ UNCHANGED <<observerVars, registryVars, serverVars, training_process, training_status, stop_monitoring,
                 monitor_thread, app, config, req, response, stopper, child, lastSpawn,
                 message_queue, sent>>

\* training_routes.py 165: wait() returns the exit code.
drain_wait_return(d) ==
  /\ drain[d].pc = "waiting"
  /\ ~Alive(child, drain[d].handle)
  /\ drain' = [drain EXCEPT ![d].pc = "update", ![d].rc = child[drain[d].handle].rc]
  /\ UNCHANGED <<observerVars, registryVars, serverVars, training_process, training_status, stop_monitoring,
                 monitor_thread, app, config, req, response, stopper, child, lastSpawn,
                 message_queue, sent>>

\* training_routes.py 173-190: the status update by exit code.
drain_update(d) ==
  /\ drain[d].pc = "update"
  /\ training_status' =
       [is_training |-> FALSE, process_id |-> None,
        error |-> IF drain[d].rc = 0 THEN "none" ELSE DrainError(drain[d].rc)]
  /\ DrainGoto(d, "bcast")
  /\ UNCHANGED <<observerVars, registryVars, serverVars, training_process, stop_monitoring, monitor_thread, app,
                 config, req, response, stopper, child, lastSpawn, message_queue, sent>>

\* training_routes.py 192-200: the completion event is broadcast.
drain_broadcast(d) ==
  /\ drain[d].pc = "bcast"
  /\ sent' = sent (+) SetToBag({CompleteMsg(drain[d].handle, drain[d].rc)})
  /\ DrainGoto(d, "finally")
  /\ UNCHANGED <<observerVars, registryVars, serverVars, training_process, training_status, stop_monitoring,
                 monitor_thread, app, config, req, response, stopper, child, lastSpawn,
                 message_queue>>

\* training_routes.py 202-209: except Exception: the status update.
drain_except(d) ==
  /\ drain[d].pc = "except"
  /\ training_status' =
       [is_training |-> FALSE, process_id |-> None, error |-> ExceptionText]
  /\ DrainGoto(d, "exceptBcast")
  /\ UNCHANGED <<observerVars, registryVars, serverVars, training_process, stop_monitoring, monitor_thread, app,
                 config, req, response, stopper, child, lastSpawn, message_queue, sent>>

\* training_routes.py 211-222: the training_error event is broadcast.
drain_except_broadcast(d) ==
  /\ drain[d].pc = "exceptBcast"
  /\ sent' = sent (+) SetToBag({ErrorMsg(d)})
  /\ DrainGoto(d, "finally")
  /\ UNCHANGED <<observerVars, registryVars, serverVars, training_process, training_status, stop_monitoring,
                 monitor_thread, app, config, req, response, stopper, child, lastSpawn,
                 message_queue>>

\* training_routes.py 223-225: finally: training_process = None
drain_finally(d) ==
  /\ drain[d].pc = "finally"
  /\ training_process' = None
  /\ DrainGoto(d, "done")
  /\ UNCHANGED <<observerVars, registryVars, serverVars, training_status, stop_monitoring, monitor_thread, app,
                 config, req, response, stopper, child, lastSpawn, message_queue, sent>>

\* One valid request body; the children print while the log queue is short.
InitRoutes == app = "routes" /\ InitState /\ config = DefaultConfig

NextRoutes ==
  \/ \E r \in Requests :
       \/ start_training_routes(r)
       \/ start_training_routes_return(r)
       \/ Len(message_queue) < MaxOut /\ ChildPrint(r)
       \/ ChildExit(r, ExitCodes)
       \/ drain_start(r)
       \/ drain_poll(r)
       \/ drain_readline(r)
       \/ drain_readline_return(r)
       \/ drain_ended(r)
       \/ drain_wait(r)
       \/ drain_wait_return(r)
       \/ drain_update(r)
       \/ drain_broadcast(r)
       \/ drain_except(r)
       \/ drain_except_broadcast(r)
       \/ drain_finally(r)
  \/ ProcessEnded /\ get_training_status
  \/ stop_training_routes
  \/ stop_training_routes_wait
  \/ stop_training_routes_join
  \/ stop_training_routes_return

SpecRoutes == InitRoutes /\ [][NextRoutes]_vars

\* --------------------------------- training_routes.py: the logs endpoint
\* training_routes.py 436-442: GET /api/training/logs is called.
get_training_logs_call ==
  /\ app = "routes"
  /\ LoopFree
  /\ logs.calls < MaxLogCalls
  /\ logs' = [NoLogs EXCEPT !.pc = "get", !.calls = logs.calls + 1]
  /\ UNCHANGED <<status_reply, written, registryVars, serverVars, routesVars, app, config, req,
                 response, stopper, child, lastSpawn, message_queue, sent>>

\* training_routes.py 446-452: one message_queue.get(block=False): an entry,
\* kept in temp_queue, or queue.Empty, which ends the loop.
get_training_logs_get ==
  /\ logs.pc = "get"
  /\ IF message_queue # <<>>
     THEN /\ message_queue' = Tail(message_queue)
          /\ logs' = [logs EXCEPT !.temp_queue = Append(@, Head(message_queue))]
     ELSE /\ message_queue' = message_queue
          /\ logs' = [logs EXCEPT !.pc = "put", !.back = logs.temp_queue]
  /\ UNCHANGED <<status_reply, written, registryVars, serverVars, routesVars, app, config, req,
                 response, stopper, child, lastSpawn, sent>>

\* training_routes.py 455-459 and the return: one message_queue.put of the
\* loop that puts the entries back, or its end.
get_training_logs_put ==
  /\ logs.pc = "put"
  /\ IF logs.back # <<>>
     THEN /\ message_queue' = Append(message_queue, Head(logs.back))
          /\ logs' = [logs EXCEPT !.back = Tail(@)]
     ELSE /\ message_queue' = message_queue
          /\ logs' = [logs EXCEPT !.pc = "idle"]
  /\ UNCHANGED <<status_reply, written, registryVars, serverVars, routesVars, app, config, req,
                 response, stopper, child, lastSpawn, sent>>

\* One run whose child prints MaxLines lines, and a client that reads the logs.
NextLogs ==
  \/ start_training_routes(1)
  \/ start_training_routes_return(1)
  \/ drain[1].lines + child[1].out < MaxLines /\ ChildPrint(1)
  \/ ChildExit(1, {0})
  \/ drain_start(1)
  \/ drain_poll(1)
  \/ drain_readline(1)
  \/ drain_readline_return(1)
  \/ drain_ended(1)
  \/ drain_wait(1)
  \/ drain_wait_return(1)
  \/ drain_update(1)
  \/ drain_broadcast(1)
  \/ drain_finally(1)
  \/ get_training_logs_call
  \/ get_training_logs_get
  \/ get_training_logs_put

SpecLogs == InitRoutes /\ [][NextLogs]_vars

\* ------------------------------- training_routes.py: the status endpoint
\* One run that is never stopped, and a client that polls its status.
NextPoll ==
  \/ start_training_routes(1)
  \/ start_training_routes_return(1)
  \/ Len(message_queue) < MaxOut /\ ChildPrint(1)
  \/ ChildExit(1, ExitCodes)
  \/ drain_start(1)
  \/ drain_poll(1)
  \/ drain_readline(1)
  \/ drain_readline_return(1)
  \/ drain_ended(1)
  \/ drain_wait(1)
  \/ drain_wait_return(1)
  \/ drain_update(1)
  \/ drain_broadcast(1)
  \/ drain_except(1)
  \/ drain_except_broadcast(1)
  \/ drain_finally(1)
  \/ get_training_status

SpecPoll == InitRoutes /\ [][NextPoll]_vars

\* ------------------------------------------------ the connection registry
NextRegistry ==
  \/ \E t \in Tasks :
       \/ \E c \in ClientIds : connect_call(t, c, MaxConnects)
       \/ connect_accepted(t)
       \/ connect_closed(t)
  \/ \E ws \in 1..MaxConnects : disconnect(ws)
  \/ broadcast_call
  \/ broadcast_sent

SpecRegistry == InitWatcher /\ [][NextRegistry]_vars

\* One client that connects again and again under the same identifier; the
\* handler of a session ends when its socket was closed.
NextReconnect ==
  \/ \E t \in Tasks :
       \/ connect_call(t, "A", MaxReconnects)
       \/ connect_accepted(t)
       \/ connect_closed(t)
  \/ \E ws \in closed : disconnect(ws)

SpecReconnect == InitWatcher /\ [][NextReconnect]_vars

\* ------------------------------------------------- the WebSocket endpoint
\* The values of int(time.time()) at which sessions are opened.
Seconds == {1, 2}

\* Server.py 931: query_params.get('client_id', f'client_{int(time.time())}');
\* q is the client_id of the query string, "none" if there is none.
EndpointClientId(q, now) ==
  IF q # "none" THEN q ELSE IF now = 1 THEN "client_1" ELSE "client_2"

\* websocket_manager.py 73: query_params.get('client_id', 'anonymous')
HandlerClientId(q) == IF q # "none" THEN q ELSE "anonymous"

\* Server.py 929-932 (websocket_manager.py 72-74): a session is opened with
\* the query string q and the endpoint calls connect(websocket, client_id).
websocket_endpoint(t, q) ==
  \E now \in Seconds :
    connect_call(t,
                 IF app = "server" THEN EndpointClientId(q, now) ELSE HandlerClientId(q),
                 MaxConnects)

InitAnonymous == (InitServer \/ InitRoutes) /\ config = DefaultConfig

\* Sessions that supply no client_id; the handler of a session may end.
NextAnonymous ==
  \/ \E t \in Tasks :
       \/ websocket_endpoint(t, "none")
       \/ connect_accepted(t)
       \/ connect_closed(t)
  \/ \E ws \in 1..MaxConnects : disconnect(ws)

SpecAnonymous == InitAnonymous /\ [][NextAnonymous]_vars

\* ------------------------------------------------------- either server
Init == InitServer \/ InitRoutes

Next ==
  \/ app = "server" /\ NextServer
  \/ app = "routes" /\ NextRoutes

Spec == Init /\ [][Next]_vars

\* The status flag of the server that is running.
IsTraining ==
  IF app = "server" THEN training_state.is_training ELSE training_status.is_training

\* ================================================================ claims
\* Has run r reached the code after its polling loop (is_training = False)?
RunCompleted(r) == req[r].pc \in {"finalDrain", "completing", "done"}

\* C1: of two start requests with a valid config, issued with no stop and no
\* completion of a run between them, exactly one returns success and the other
\* is rejected as already running.
C1_StartMutualExclusion ==
  ( /\ PathExists(config.config_path)
    /\ response[1] # "none" /\ response[2] # "none"
    /\ stopper.calls = 0
    /\ \A r \in Requests : ~RunCompleted(r) )
  => \E r \in Requests :
       /\ response[r] = "training_started"
       /\ \A q \in Requests \ {r} : response[q] = "AlreadyRunning"

\* C2: when stop returns success, is_training is false and the process handle
\* is cleared.
C2_StopPostcondition ==
  [][stop_training_Server_return =>
       /\ ~training_state'.is_training
       /\ training_state'.current_process = None]_vars

\* Has anything been started for request r?
Spawned(r) ==
  \/ child[r].st # "none"
  \/ watcher[r].pc # "none"
  \/ lastSpawn.run = r

\* C10: a start request whose config path does not exist fails with
\* ConfigNotFound, one in specific-checkpoint resume mode whose checkpoint does
\* not exist fails with CheckpointNotFound; no child is spawned, no observer
\* thread is started and is_training stays false.
C10_StartValidation ==
  /\ ~PathExists(config.config_path)
       => /\ \A r \in Requests :
               response[r] \in {"none", "ConfigNotFound"} /\ ~Spawned(r)
          /\ ~training_state.is_training
  /\ ( /\ PathExists(config.config_path)
       /\ config.resume_mode = "specific"
       /\ config.resume_checkpoint = "ckpt_missing" )
       => /\ \A r \in Requests :
               response[r] \in {"none", "CheckpointNotFound"} /\ ~Spawned(r)
          /\ ~training_state.is_training

\* C5: a poll tick of a watcher on which the newest state file is not newer
\* than the last one consumed pushes nothing onto the queue and leaves the
\* status and the watermark as they are.
C5_WatcherIdempotence ==
  [][\A w \in Requests :
       (watcher[w].idle /\ watcher'[w] # watcher[w])
       => /\ UNCHANGED <<message_queue, training_state>>
          /\ watcher'[w].last_modified = watcher[w].last_modified]_vars

\* A watcher that consumed a snapshot is in a later tick with no newer file.
C5_IdleTickAfterConsuming ==
  \E w \in Requests :
    /\ watcher[w].pc = "sleep"
    /\ watcher[w].idle
    /\ watcher[w].last_modified > 0
    /\ watcher[w].current_modified = watcher[w].last_modified

\* The loop of run r has found output_timeout above max_timeout.
HangDetected(r) ==
  /\ req[r].output_timeout > HalfSeconds(max_timeout)
  /\ req[r].pc \in {"alert", "finalDrain", "completing", "done"}

\* C6: when the no-output counter exceeds max_timeout on a child that has not
\* exited, the child is sent exactly one terminate signal and exactly one
\* training_alert of level error is broadcast.
C6_HangDetection ==
  \A r \in Requests :
    (HangDetected(r) /\ child[r].terms > 0)
    => /\ child[r].terms = 1
       /\ CopiesIn(HangAlert(r), sent) = 1

\* C7: a watcher that consumed a snapshot pushes one training_update carrying
\* that snapshot's epoch, loss and stage, and goes on to push the critical
\* alert exactly when the snapshot's loss is above 500.
C7_LossExplosionAlert ==
  [][\A w \in Requests :
       monitor_training_logs_put(w)
       => /\ message_queue' =
               Append(message_queue,
                      UpdateMsg(watcher[w].epoch, watcher[w].loss, watcher[w].stage))
          /\ (watcher'[w].pc = "alert") <=> (watcher[w].loss > 500)]_vars

\* C8: when the child of a run exits with a code c other than 0 and no stop was
\* requested, then once the run's observer has ended the status has error set
\* and is_training false, and exactly one completion event with success false
\* and return_code c was broadcast for the run.
C8_AbnormalExit ==
  \A r \in Requests :
    ( /\ drain[r].pc = "done"
      /\ child[r].st = "exited" /\ child[r].rc # 0
      /\ stopper.calls = 0
      /\ \A q \in Requests : q > r => req[q].pc = "idle" )
    => /\ training_status.error # "none"
       /\ ~training_status.is_training
       /\ CopiesIn(CompleteMsg(r, child[r].rc), sent) = 1

\* C9: a stop request handled while the status says that no run is active
\* answers NotRunning, sends no signal, broadcasts nothing and leaves the
\* status, the process handle and the queue as they are.
C9_StopWhenNotRunning ==
  [][((stop_training_Server \/ stop_training_routes) /\ ~IsTraining)
       => /\ stopper'.result = "NotRunning"
          /\ UNCHANGED <<child, sent, training_state, training_status,
                         training_process, stop_monitoring, message_queue>>]_vars

\* A stop request was rejected after a run had ended.
C9_StopRejectedAfterRun ==
  /\ stopper.result = "NotRunning"
  /\ \E r \in Requests : child[r].st = "exited"
  /\ ~IsTraining

\* The connections whose send failed in the broadcast call.
FailedSet == {broadcasting.failed[i] : i \in DOMAIN broadcasting.failed}

\* C3: a broadcast call during which no other task changed the registry
\* attempts every registered connection, delivers to every connection whose
\* send did not fail, and leaves exactly those in the registry.
C3_BroadcastIsolation ==
  (broadcasting.pc = "returned" /\ ~broadcasting.disturbed)
  => /\ broadcasting.attempted = broadcasting.start
     /\ broadcasting.delivered = broadcasting.start \ FailedSet
     /\ broadcasting.after = broadcasting.start \ FailedSet

\* A broadcast to three connections of which some, not all, failed.
C3_PartialFailure ==
  /\ broadcasting.pc = "returned"
  /\ ~broadcasting.disturbed
  /\ Cardinality(broadcasting.start) = 3
  /\ FailedSet # {}
  /\ FailedSet # broadcasting.start

\* C4: the registry holds at most one connection per non-anonymous
\* client_identifier.
C4_IdentityEviction ==
  \A c \in ClientIds \ {"none"} :
    Cardinality({i \in DOMAIN active_connections.entries :
                   active_connections.entries[i].client = c}) <= 1

\* The resume part of an argument vector: what follows "--stage" and its value.
ResumePart(cmd) == SubSeq(cmd, 5, Len(cmd))

\* C11: after every successful start the child's argument vector holds the
\* config path and the stage, and its resume part is decided by resume_mode
\* alone: nothing for fresh, "--resume latest" for latest, "--resume" and the
\* checkpoint path for specific.
C11_ResumeDirective ==
  lastSpawn.run # None
  => /\ SubSeq(lastSpawn.cmd, 1, 4) =
          <<"--config", config.config_path, "--stage", ToString(config.stage)>>
     /\ ResumePart(lastSpawn.cmd) =
          CASE config.resume_mode = "fresh" -> <<>>
            [] config.resume_mode = "latest" -> <<"--resume", "latest">>
            [] config.resume_mode = "specific" ->
                 <<"--resume", config.resume_checkpoint>>

\* A stop request that has signalled a child returns, with success or with an
\* error.
StopReturns ==
  \/ stop_training_Server /\ stopper'.result = "error"
  \/ stop_training_Server_return
  \/ stop_training_routes_wait /\ stopper'.result = "error"
  \/ stop_training_routes_return

\* C12: a stop request first sends terminate and sends a kill if the child
\* outlives the grace period, so that whenever the request returns, no child
\* that was sent terminate is alive and is_training is false.
C12_TwoPhaseStop ==
  [][StopReturns
       => /\ ~IsTraining'
          /\ \A r \in Requests : child'[r].terms > 0 => ~Alive(child', r)]_vars

\* C13: a status query answered after the tracked child has exited returns
\* is_training false, with error null if the child exited with 0 and an
\* exit-code-derived message otherwise.
C13_StatusReconciliation ==
  [][(get_training_status /\ lastSpawn.run # None /\ child[lastSpawn.run].st = "exited")
       => LET rc == child[lastSpawn.run].rc IN
          /\ ~status_reply'.is_training
          /\ rc = 0 => status_reply'.error = "none"
          /\ rc # 0 => status_reply'.error \in {StatusError(rc), DrainError(rc)}]_vars

\* The connections of the registry d that hold the socket ws.
SocketIds(d, ws) ==
  {d.entries[i].id : i \in {j \in DOMAIN d.entries : d.entries[j].ws = ws}}

\* From d to d2, the connection of ws, if any, is gone and nothing else changed.
Unregistered(d, d2, ws) ==
  IF SocketIds(d, ws) = {} THEN d2 = d
  ELSE /\ Cardinality(SocketIds(d, ws)) = 1
       /\ Ids(d2) = Ids(d) \ SocketIds(d, ws)
       /\ LiveEntries(d2) = SelectSeq(LiveEntries(d), LAMBDA e : e.ws # ws)

\* C14: disconnect of a registered socket removes that connection and no other;
\* disconnect of a socket that is not registered (evicted, removed by a
\* broadcast, or disconnected before) changes nothing.
C14_IdempotentUnregister ==
  /\ [][\A ws \in 1..MaxConnects :
          disconnect(ws) => Unregistered(active_connections, active_connections', ws)]_vars
  /\ [](\A ws \in 1..MaxConnects :
          LET d == DisconnectSocket(active_connections, ws) IN
          /\ Unregistered(active_connections, d, ws)
          /\ DisconnectSocket(d, ws) = d)

\* A session ended and was removed while another connection stayed registered:
\* the hole in the registry is not from an eviction or a failed send.
C14_RemovedOneOfSeveral ==
  /\ closed = {}
  /\ broadcasting.calls = 0
  /\ Used(active_connections) >= 1
  /\ \E i \in DOMAIN active_connections.entries : active_connections.entries[i] = Tomb
  /\ \E ws \in 1..sockets : ws \notin sessions /\ SocketIds(active_connections, ws) = {}

\* C15: the step that starts a run leaves current_epoch and current_loss at 0,
\* and no other step lowers current_epoch.
C15_RunScopedReset ==
  [][IF \E r \in Requests : run_training_async_begin(r, MaxQuiet)
     THEN /\ training_state'.current_epoch = 0
          /\ training_state'.current_loss = 0
     ELSE training_state'.current_epoch >= training_state.current_epoch]_vars

InPutOrder(q) ==
  \A i, j \in DOMAIN q :
    (i < j /\ q[i].type = "training_log" /\ q[j].type = "training_log"
     /\ q[i].run = q[j].run) => q[i].n < q[j].n

\* C17: the entries that one producer put on the queue are taken out of it in
\* the order in which the producer put them.
C17_PerProducerFIFO == InPutOrder(logs.temp_queue)

\* A step of a background thread: the drain thread or the watcher of a run.
ThreadStep ==
  \E r \in Requests :
    \/ drain_start(r) \/ drain_poll(r) \/ drain_readline(r)
    \/ drain_readline_return(r) \/ drain_ended(r) \/ drain_wait(r)
    \/ drain_wait_return(r) \/ drain_update(r) \/ drain_broadcast(r)
    \/ drain_except(r) \/ drain_except_broadcast(r) \/ drain_finally(r)
    \/ monitor_training_logs_poll(r) \/ monitor_training_logs_read(r)
    \/ monitor_training_logs_epoch(r) \/ monitor_training_logs_loss(r)
    \/ monitor_training_logs_stage(r) \/ monitor_training_logs_put(r)
    \/ monitor_training_logs_alert(r) \/ monitor_training_logs_sleep(r)

\* C18: no step of a background thread hands an event to the manager's
\* broadcast or touches the connection registry; the threads reach the clients
\* through the queue only.
C18_ThreadConfinement ==
  [][ThreadStep => UNCHANGED <<sent, registryVars>>]_vars

\* The epoch, loss and stage of the status before any snapshot was consumed.
InitialSnapshot == [epoch |-> 0, loss |-> 0, stage |-> 1]

\* C19: the epoch, loss and stage of every status returned to a reader are
\* those of one snapshot: a state file that was written, or the initial values.
C19_NoTornStatusRead ==
  status_reply.seen
  => [epoch |-> status_reply.epoch, loss |-> status_reply.loss,
      stage |-> status_reply.stage] \in written \cup {InitialSnapshot}


\* The event types that tell the clients that a run is over.
TerminalTypes ==
  {"training_completed", "training_complete", "training_error", "training_stopped"}

\* The number of terminal events broadcast so far.
TerminalEvents ==
  BagCardinality([m \in {x \in DOMAIN sent : x.type \in TerminalTypes} |-> sent[m]])

\* The requests for which a run was started.
RunsStarted == {r \in Requests : req[r].pc # "idle"}

\* C20: once every run that was started has ended and no stop request is in
\* progress, as many terminal events (completion, error or stopped) were
\* broadcast as runs were started: one per run, whether the run ended by child
\* exit, by hang termination or by a stop request.
C20_SingleTerminalEvent ==
  ( /\ RunsStarted # {}
    /\ \A r \in RunsStarted : req[r].pc = "done"
    /\ stopper.pc = "idle" )
  => TerminalEvents = Cardinality(RunsStarted)

\* C21: a watcher tick on which the newest state file does not decode pushes
\* nothing onto the queue, leaves the status and the watermark as they are and
\* leaves the thread in its loop; until the watcher has consumed that file its
\* watermark stays below the file's modification time, so that the next tick
\* of a run that is still active reads the file again.
C21_DecodeFailureSkipsTick ==
  /\ [][\A w \in Requests :
          (monitor_training_logs_read(w) /\ logfile.partial)
          => /\ UNCHANGED <<message_queue, training_state, sent>>
             /\ watcher'[w].last_modified = watcher[w].last_modified
             /\ watcher'[w].pc = "sleep"]_vars
  /\ [](\A w \in Requests :
          watcher[w].retry # 0
          => /\ watcher[w].last_modified < watcher[w].retry
             /\ watcher[w].retry <= logfile.mtime)
  /\ [][\A w \in Requests :
          ( /\ monitor_training_logs_poll(w)
            /\ training_state.is_training
            /\ watcher[w].retry # 0 )
          => watcher'[w].pc = "read"]_vars

\* A watcher has decoded, on a later tick, the file whose decode had failed,
\* and is about to push its update.
C21_ConsumedOnRetry ==
  \E w \in Requests :
    /\ watcher[w].pc = "put"
    /\ watcher[w].retry # 0
    /\ watcher[w].current_modified >= watcher[w].retry

\* C22: under fair scheduling of the threads, the watcher of every run exits
\* after the run has set is_training to false, also when the next run is
\* started soon after.
C22_WatcherTermination ==
  \A r \in Requests : RunCompleted(r) ~> (watcher[r].pc = "exit")

\* The watcher threads that were started and have not ended.
LiveWatchers == {w \in Requests : watcher[w].pc \notin {"none", "exit"}}

\* The output drains that were started and have not ended: the drain threads
\* of training_routes.py; in Server.py, which starts no thread for it, the
\* tasks that are in their polling loop.
LiveDrains ==
  {d \in Requests :
     IF app = "server" THEN req[d].pc \in {"sleep", "drain", "console", "alert"}
     ELSE drain[d].pc \notin {"none", "done"}}

\* C23: while a run is active exactly two observers of it are alive, one
\* output drain and one state-file watcher, and at no time are two watchers or
\* two drains alive.
C23_ObserverThreadCount ==
  /\ Cardinality(LiveWatchers) <= 1
  /\ Cardinality(LiveDrains) <= 1
  /\ IsTraining => Cardinality(LiveWatchers) = 1 /\ Cardinality(LiveDrains) = 1

\* The sockets that the registry holds.
Registered ==
  {active_connections.entries[i].ws :
     i \in {j \in DOMAIN active_connections.entries :
              IsLive(active_connections.entries[j])}}

\* Task t returns from connect with its connection inserted.
ConnectReturns(t) ==
  /\ connecting[t].pc \in {"accept", "closing"}
  /\ connecting'[t].pc = "idle"
  /\ connecting[t].ws \in sessions'

C25_NoReconsumption ==
  [][\A w \in Requests :
       monitor_training_logs_put(w)
       => \A q \in Requests :
            watcher[q].last_modified # watcher[w].current_modified]_vars

\* The connections that the step of the broadcast deletes from the dict.
BroadcastDeletes == Ids(active_connections) \ Ids(active_connections')

\* C26: a broadcast whose sends are awaited while other tasks register and
\* unregister connections does not raise, delivers to every connection that
\* was registered from its call to its return, and deletes only connections
\* whose send failed.
C26_BroadcastUnderInterleaving ==
  /\ [](broadcasting.pc # "raised")
  /\ [](broadcasting.pc = "returned"
         => (broadcasting.start \cap broadcasting.after) \subseteq broadcasting.delivered)
  /\ [][(broadcast_call \/ broadcast_sent)
         => BroadcastDeletes
              \subseteq {broadcasting'.failed[i] : i \in DOMAIN broadcasting'.failed}]_vars

\* training_routes.py 234: the start handler answers "already in progress".
StartRejected == training_status.is_training

\* C27: whenever is_training is true the process handle is set, so there is
\* no state in which a start request is rejected as already running while a
\* stop request is rejected as not running; the exit path of the drain
\* thread of an earlier run does not clear the handle of a newer run.
C27_NoWedgedState ==
  /\ [](training_status.is_training => training_process # None)
  /\ [](~(StartRejected /\ NotRunningRoutes))
  /\ [][\A d \in Requests :
          drain_finally(d) => (training_process = None \/ training_process = d)]_vars

\* The process handle of the server that is running (Server.py 301,
\* training_routes.py 297).
ProcessHandle ==
  IF app = "server" THEN training_state.current_process ELSE training_process

\* The children spawned by the server that have not exited.
AliveChildren == {r \in Requests : Alive(child, r)}

\* C28: after any sequence of start, stop, status and child-exit steps at
\* most one child spawned by the server is alive, and while a child is alive
\* is_training is true and the process handle refers to that child.
C28_SingleChild ==
  /\ Cardinality(AliveChildren) <= 1
  /\ \A r \in AliveChildren : IsTraining /\ ProcessHandle = r

\* Has every run that was started broadcast its terminal event and returned?
NoRunInProgress == \A r \in Requests : req[r].pc \in {"idle", "done"}

\* C29: the events that the watchers put on the queue during a run are
\* broadcast before the terminal event of the run: when the terminal event of
\* every run started so far has been broadcast the queue is empty, and a
\* watcher puts nothing on the queue once its run is over, so that no event
\* of a run is left to be broadcast during the next run.
C29_NoEventLeak ==
  /\ [](NoRunInProgress => message_queue = <<>>)
  /\ [][\A w \in Requests :
          (monitor_training_logs_put(w) \/ monitor_training_logs_alert(w))
          => req[w].pc # "done"]_vars

\* C30: a session that connects without a client identifier causes no
\* existing connection to be closed or removed: while only such sessions
\* connect no socket is closed by connect and no step of connect deletes a
\* connection from the registry.
C30_AnonymousNoEviction ==
  /\ [](closed = {})
  /\ [][\A t \in Tasks :
          (connect_accepted(t) \/ connect_closed(t))
          => Ids(active_connections) \subseteq Ids(active_connections')]_vars


============================================================================
